---- MODULE Spec2Model ----
(***************************************************************************)
(* The Ibo governance pallet (bin/node/runtime/src/ibo.rs): proposals for  *)
(* listing, delisting, raising and lowering tokens, the council review,    *)
(* the stake-weighted public vote, the reward settlement and the           *)
(* end-of-block scheduler (on_finalize).                                   *)
(*                                                                         *)
(* Balances are u128 in the runtime.  Every balance of the model stays far *)
(* below 2^31 except a rewards_remainder that has wrapped below zero in a  *)
(* build without overflow checks: a negative value v of rewards_remainder  *)
(* stands for the u128 value 2^128 + v.                                    *)
(***************************************************************************)
EXTENDS Integers, Sequences, FiniteSets, TLC

(***************************************************************************)
(* Program constants.                                                      *)
(***************************************************************************)
TOTAL_REWARDS == 100000
MAX_SUPPLY == 1000000000
ALLOW_MODIFY_DURATION == 600000
REVIEW_DURATION == 600000
VOTE_DURATION == 600000
RECEIVE_REWARDS_DURATION == 600000
MINUTE == 60000

\* AGE_DAY[age_idx + 1] = <<vote age, lock period>>
AGE_DAY ==
    << <<1000, MINUTE>>, <<1500, 2 * MINUTE>>, <<2250, 3 * MINUTE>>,
       <<3375, 4 * MINUTE>>, <<5000, 5 * MINUTE>>, <<7600, 6 * MINUTE>> >>

(***************************************************************************)
(* Bounds and input sets of the model.                                     *)
(***************************************************************************)
MaxId == 2          \* proposals ever created
MaxBlocks == 5      \* blocks after genesis
MaxClaims == 3      \* successful receive_rewards calls
MaxBurns == 1       \* burn calls
MaxTally == 3       \* review tallies drawn by InitReview

Treasury == "treasury"
Signers == {"alice", "bob", "charlie"}
Accounts == Signers \cup {Treasury}
Proposers == {"alice"}
CouncilMembers == {"alice"}
VoterAccounts == {"bob", "charlie"}
TokenNames == {"X"}
TokenSymbols == {"SYM"}
ListMarkets == {"Growth"}
Amounts == {100, 1000}
AgeIdxs == {0}
BurnAmounts == {1000}
BlockTimes == {REVIEW_DURATION + 1}
ProposalIds == 0 .. (MaxId - 1)
ReviewIds == 0 .. 2     \* the proposal ids of InitReview

VARIABLES
    now,              \* timestamp::Module::get(), ms
    finalized,        \* TRUE between on_finalize and the next block's timestamp
    Proposals,        \* ProposalId -> Proposal, defined on the stored ids
    VotingProposal,   \* {} when the value is absent, {id} when present
    Tokens,           \* token_name -> TokenInfo, defined on the stored names
    Reviewers,        \* ProposalId -> Seq(AccountId)
    Voters,           \* ProposalId -> Seq(AccountId)
    Staking,          \* AccountId -> Seq(StakingInfo)
    IdGenerator,
    free,             \* AccountId -> free balance
    reserved,         \* AccountId -> reserved balance
    total_issuance,
    credited,         \* history: ProposalId -> AccountId -> rewards credited
    claims,           \* history: successful receive_rewards calls
    burns,            \* history: burn calls
    result            \* outcome of the last extrinsic applied in this block

vars == <<now, finalized, Proposals, VotingProposal, Tokens, Reviewers, Voters,
          Staking, IdGenerator, free, reserved, total_issuance, credited,
          claims, burns, result>>

(***************************************************************************)
(* Helpers on sequences and maps.                                          *)
(***************************************************************************)
Range(s) == {s[i] : i \in 1 .. Len(s)}

Insert(map, key, value) ==
    [k \in (DOMAIN map) \cup {key} |-> IF k = key THEN value ELSE map[k]]

Remove(map, key) == [k \in (DOMAIN map) \ {key} |-> map[k]]

\* Vec::remove_item: removes the first element equal to item
RemoveItem(s, item) ==
    IF \E i \in 1 .. Len(s) : s[i] = item
    THEN LET i == CHOOSE j \in 1 .. Len(s) :
                      s[j] = item /\ \A k \in 1 .. (j - 1) : s[k] # item
         IN  SubSeq(s, 1, i - 1) \o SubSeq(s, i + 1, Len(s))
    ELSE s

Min(a, b) == IF a <= b THEN a ELSE b

RECURSIVE MulDivPair(_, _, _)
\* <<q, r>> with a * b = q * c + r and 0 <= r < c, without leaving 32 bits
MulDivPair(a, b, c) ==
    IF a = 0 THEN <<0, 0>>
    ELSE LET h == MulDivPair(a \div 2, b, c)
             bit == a % 2
             rr == 2 * h[2] + bit * (b % c)
         IN  <<2 * h[1] + bit * (b \div c) + (rr \div c), rr % c>>

\* a * b / c as the runtime computes it in u128: multiply, then divide, floor
MulDivFloorDivFirst(a, b, c) == a * (b \div c)
MulDivFloor(a, b, c) == MulDivPair(a, b, c)[1]

(***************************************************************************)
(* Storage iteration order: Proposals is a twox_64_concat map, iterated in *)
(* the lexicographic order of twox_64(id.encode()) ++ id.encode().  The    *)
(* first byte of twox_64 of the little-endian u32 ids 0..7 (they differ):  *)
(* 0: b4def25cfda6ef3a  1: 5153cb1f00942ff4  2: 9eb2dcce60f37a27           *)
(* 3: bfb27f1eaef06bb9  4: d9c9869128432238  5: 39b9d2792f8bd4c3           *)
(* 6: b61f803a716bd3b9  7: 0e0d969b0e48cab7                                *)
(***************************************************************************)
Twox64FirstByteById(id) == id
Twox64FirstByte(id) == <<180, 81, 158, 191, 217, 57, 182, 14>>[id + 1]

RECURSIVE IterOrder(_)
\* the ids of S in the order Proposals::iter() yields them
IterOrder(S) ==
    IF S = {} THEN <<>>
    ELSE LET first == CHOOSE i \in S :
                          \A j \in S : Twox64FirstByte(i) <= Twox64FirstByte(j)
         IN  <<first>> \o IterOrder(S \ {first})

(***************************************************************************)
(* Records.                                                                *)
(***************************************************************************)
NewProposal(id, proposer, proposal_type, token_name, token_symbol, current_market, target_market, rewards_remainder, timestamp) ==
    [id |-> id, proposer |-> proposer, proposal_type |-> proposal_type,
     token_name |-> token_name, token_symbol |-> token_symbol,
     current_market |-> current_market, target_market |-> target_market,
     state |-> "Pending", review_goals |-> <<0, 0>>, vote_goals |-> <<0, 0>>,
     rewards_remainder |-> rewards_remainder, timestamp |-> timestamp]

clone_from_token_info(id, proposer, proposal_type, target_market, rewards_remainder, timestamp, token_info) ==
    NewProposal(id, proposer, proposal_type, token_info.token_name,
                token_info.token_symbol, token_info.current_market,
                target_market, rewards_remainder, timestamp)

clone_from_proposal(proposal) ==
    [token_name |-> proposal.token_name,
     token_symbol |-> proposal.token_symbol,
     current_market |-> proposal.target_market]

get_goals_from_staking(stake, age_idx) == stake * AGE_DAY[age_idx + 1][1]

\* the first StakingInfo of user for proposal id, as a set of at most one
get_staking_info(user, id) ==
    LET infos == Staking[user]
        hits == {i \in 1 .. Len(infos) : infos[i].proposal_id = id}
    IN  IF hits = {} THEN {}
        ELSE {infos[CHOOSE i \in hits : \A j \in hits : i <= j]}

(***************************************************************************)
(* Dispatch results: the DispatchResult an extrinsic returned and whether  *)
(* it deposited its ProposalChanged event.  A panic is not a result: the   *)
(* block builder drops the extrinsic and discards what it wrote.           *)
(***************************************************************************)
NoCall == [res |-> "None", event |-> FALSE]
Ok(event) == [res |-> "Ok", event |-> event]
Err(error) == [res |-> error, event |-> FALSE]
Panicked == [res |-> "Panic", event |-> FALSE]

(***************************************************************************)
(* Balance gateway (the Currency primitives of the host runtime).          *)
(***************************************************************************)
AccountExists(fr, rs, account) == fr[account] + rs[account] > 0

\* slash: takes from the free balance first, then from the reserved balance
SlashFree(fr, amount) == fr - Min(fr, amount)
SlashReserved(fr, rs, amount) == rs - Min(rs, amount - Min(fr, amount))

\* burn: lowers total_issuance, saturating at zero
BurnIssuance(ti, amount) == ti - Min(ti, amount)

\* The store the scheduler works on.
Store ==
    [P |-> Proposals, V |-> VotingProposal, T |-> Tokens, free |-> free,
     reserved |-> reserved, ti |-> total_issuance]

\* Module::deposit_into_existing: the cap check, then the credit
deposit_into_existing_nocap(s, account, amount) ==
    IF amount >= 0 /\ AccountExists(s.free, s.reserved, account)
    THEN [ok |-> TRUE,
          s |-> [s EXCEPT !.free[account] = @ + amount, !.ti = @ + amount]]
    ELSE [ok |-> FALSE, s |-> s]

deposit_into_existing(s, account, amount) ==
    IF ~(amount >= 0 /\ MAX_SUPPLY - s.ti >= amount)
    THEN [ok |-> FALSE, s |-> s]
    ELSE IF ~AccountExists(s.free, s.reserved, account)
    THEN [ok |-> FALSE, s |-> s]
    ELSE [ok |-> TRUE,
          s |-> [s EXCEPT !.free[account] = @ + amount, !.ti = @ + amount]]

(***************************************************************************)
(* The scheduler.                                                          *)
(***************************************************************************)
ReviewQuorumStrict(s, o) == s > 2 * o /\ s + o > 0
ReviewQuorum(s, o) == s >= 2 * o /\ s + o > 0

DelistReviewQuorum(s, o) == s > o

VoteQuorumStrict(s, o) == s > 2 * o /\ s + o > 0
VoteQuorum(s, o) == s >= 2 * o /\ s + o > 0

DelistVoteQuorum(s, o) == s > o

check_proposal_pending(s, id, proposal, duration, t) ==
    IF duration > ALLOW_MODIFY_DURATION
    THEN [s EXCEPT !.P = Insert(s.P, id,
              [proposal EXCEPT !.state = "Reviewing", !.timestamp = t])]
    ELSE s

check_proposal_reviewed_nodefer(s, id, proposal, duration, t) ==
    LET sg == proposal.review_goals[1]
        og == proposal.review_goals[2]
        pass == IF proposal.proposal_type = "Delist"
                THEN DelistReviewQuorum(sg, og) ELSE ReviewQuorum(sg, og)
    IN  IF ~(duration > REVIEW_DURATION) THEN s
        ELSE IF proposal.proposal_type \in {"Rise", "Fall"}
        THEN [s EXCEPT
                !.T = IF pass
                      THEN Insert(s.T, proposal.token_name,
                                  clone_from_proposal(proposal))
                      ELSE s.T,
                !.P = Insert(s.P, id,
                        [proposal EXCEPT
                           !.state = IF pass THEN "Approved"
                                     ELSE "RejectedClosed",
                           !.timestamp = t])]
        ELSE [s EXCEPT
                !.V = IF pass THEN {id} ELSE s.V,
                !.P = Insert(s.P, id,
                        [proposal EXCEPT
                           !.state = IF pass THEN "Voting"
                                     ELSE "RejectedClosed",
                           !.timestamp = t])]

check_proposal_reviewed_rejected(s, id, proposal, duration, t) ==
    LET sg == proposal.review_goals[1]
        og == proposal.review_goals[2]
        pass == IF proposal.proposal_type = "Delist"
                THEN DelistReviewQuorum(sg, og) ELSE ReviewQuorum(sg, og)
    IN  IF ~(duration > REVIEW_DURATION) THEN s
        ELSE IF proposal.proposal_type \in {"Rise", "Fall"}
        THEN [s EXCEPT
                !.T = IF pass
                      THEN Insert(s.T, proposal.token_name,
                                  clone_from_proposal(proposal))
                      ELSE s.T,
                !.P = Insert(s.P, id,
                        [proposal EXCEPT
                           !.state = IF pass THEN "Approved"
                                     ELSE "RejectedClosed",
                           !.timestamp = t])]
        ELSE IF s.V # {} THEN s
        ELSE [s EXCEPT
                !.V = IF pass THEN {id} ELSE s.V,
                !.P = Insert(s.P, id,
                        [proposal EXCEPT
                           !.state = IF pass THEN "Voting" ELSE "Rejected",
                           !.timestamp = t])]

check_proposal_reviewed(s, id, proposal, duration, t) ==
    LET sg == proposal.review_goals[1]
        og == proposal.review_goals[2]
        pass == IF proposal.proposal_type = "Delist"
                THEN DelistReviewQuorum(sg, og) ELSE ReviewQuorum(sg, og)
    IN  IF ~(duration > REVIEW_DURATION) THEN s
        ELSE IF proposal.proposal_type \in {"Rise", "Fall"}
        THEN [s EXCEPT
                !.T = IF pass
                      THEN Insert(s.T, proposal.token_name,
                                  clone_from_proposal(proposal))
                      ELSE s.T,
                !.P = Insert(s.P, id,
                        [proposal EXCEPT
                           !.state = IF pass THEN "Approved"
                                     ELSE "RejectedClosed",
                           !.timestamp = t])]
        ELSE IF s.V # {} THEN s
        ELSE [s EXCEPT
                !.V = IF pass THEN {id} ELSE s.V,
                !.P = Insert(s.P, id,
                        [proposal EXCEPT
                           !.state = IF pass THEN "Voting"
                                     ELSE "RejectedClosed",
                           !.timestamp = t])]

check_proposal_voted(s, id, proposal, duration, t) ==
    LET sg == proposal.vote_goals[1]
        og == proposal.vote_goals[2]
        kind == proposal.proposal_type
        listed == kind = "List" /\ VoteQuorum(sg, og)
        delisted == kind = "Delist" /\ DelistVoteQuorum(sg, og)
    IN  IF ~(duration > VOTE_DURATION) THEN s
        ELSE [s EXCEPT
                !.T = IF listed
                      THEN Insert(s.T, proposal.token_name,
                                  clone_from_proposal(proposal))
                      ELSE IF delisted THEN Remove(s.T, proposal.token_name)
                      ELSE s.T,
                !.V = {},
                !.P = Insert(s.P, id,
                        [proposal EXCEPT
                           !.state = IF kind \in {"List", "Delist"}
                                     THEN IF listed \/ delisted
                                          THEN "Approved" ELSE "Rejected"
                                     ELSE @,
                           !.timestamp = t])]

\* the result of the treasury credit is ignored
check_proposal_closed(s, id, proposal, duration, t) ==
    IF ~(duration > RECEIVE_REWARDS_DURATION) THEN s
    ELSE LET paid == deposit_into_existing(s, Treasury,
                                           proposal.rewards_remainder).s
         IN  [paid EXCEPT !.P = Insert(paid.P, id,
                 [proposal EXCEPT
                    !.state = IF @ = "Approved" THEN "ApprovedClosed"
                              ELSE "RejectedClosed",
                    !.timestamp = t])]

deal_proposal(s, id, t) ==
    LET proposal == s.P[id]
        duration == t - proposal.timestamp
    IN  CASE proposal.state = "Pending" ->
                 check_proposal_pending(s, id, proposal, duration, t)
          [] proposal.state = "Reviewing" ->
                 check_proposal_reviewed(s, id, proposal, duration, t)
          [] proposal.state = "Voting" ->
                 check_proposal_voted(s, id, proposal, duration, t)
          [] proposal.state \in {"Approved", "Rejected"} ->
                 check_proposal_closed(s, id, proposal, duration, t)
          [] OTHER -> s

RECURSIVE DealAll(_, _, _)
DealAll(s, order, t) ==
    IF order = <<>> THEN s
    ELSE DealAll(deal_proposal(s, Head(order), t), Tail(order), t)

\* the store after on_finalize ran on store s at time t
Finalize(s, t) == DealAll(s, IterOrder(DOMAIN s.P), t)

(***************************************************************************)
(* Initial state: genesis.                                                 *)
(***************************************************************************)
Init ==
    /\ now = 0
    /\ finalized = TRUE
    /\ Proposals = <<>>
    /\ VotingProposal = {}
    /\ Tokens = <<>>
    /\ Reviewers = [i \in ProposalIds |-> <<>>]
    /\ Voters = [i \in ProposalIds |-> <<>>]
    /\ Staking = [a \in Accounts |-> <<>>]
    /\ IdGenerator = 0
    /\ free = [a \in Accounts |->
                 CASE a = "bob" -> 1000
                   [] a = "charlie" -> 100
                   [] a = Treasury -> 1
                   [] OTHER -> 0]
    /\ reserved = [a \in Accounts |-> 0]
    /\ total_issuance = MAX_SUPPLY - 2 * TOTAL_REWARDS
    /\ credited = [i \in ProposalIds |-> [a \in Accounts |-> 0]]
    /\ claims = 0
    /\ burns = 0
    /\ result = NoCall

(***************************************************************************)
(* The block cycle of the host runtime: the timestamp is set at the start  *)
(* of a block, extrinsics follow, on_finalize ends the block.              *)
(***************************************************************************)
SetTimestamp ==
    /\ finalized
    /\ \E d \in BlockTimes :
          /\ now + d <= MaxBlocks * (REVIEW_DURATION + 1)
          /\ now' = now + d
    /\ finalized' = FALSE
    /\ result' = NoCall
    /\ UNCHANGED <<Proposals, VotingProposal, Tokens, Reviewers, Voters,
                   Staking, IdGenerator, free, reserved, total_issuance,
                   credited, claims, burns>>

on_finalize ==
    /\ ~finalized
    /\ LET s == Finalize(Store, now)
       IN  /\ Proposals' = s.P
           /\ VotingProposal' = s.V
           /\ Tokens' = s.T
           /\ free' = s.free
           /\ reserved' = s.reserved
           /\ total_issuance' = s.ti
    /\ finalized' = TRUE
    /\ result' = NoCall
    /\ UNCHANGED <<now, Reviewers, Voters, Staking, IdGenerator, credited,
                   claims, burns>>

(***************************************************************************)
(* Extrinsics.  A call that returns an error before its first write, or    *)
(* that panics (the block builder drops it), changes nothing.              *)
(***************************************************************************)
generate_id_lowest_free ==
    CHOOSE i \in 0 .. IdGenerator :
        i \notin DOMAIN Proposals /\ \A j \in 0 .. (i - 1) : j \in DOMAIN Proposals

generate_id == IdGenerator

\* the ids of a run are those its per-proposal maps are defined on
CreateProposal(new_proposal) ==
    /\ IdGenerator \in DOMAIN Reviewers
    /\ IdGenerator' = IdGenerator + 1
    /\ Proposals' = Insert(Proposals, generate_id, new_proposal)
    /\ result' = Ok(TRUE)
    /\ UNCHANGED <<now, finalized, VotingProposal, Tokens, Reviewers, Voters,
                   Staking, free, reserved, total_issuance, credited, claims,
                   burns>>

create_list_proposal ==
    /\ ~finalized
    /\ \E proposer \in Proposers, token_name \in TokenNames,
          token_symbol \in TokenSymbols, target_market \in ListMarkets :
          /\ MAX_SUPPLY - total_issuance >= TOTAL_REWARDS
          /\ token_name \notin DOMAIN Tokens
          /\ CreateProposal(
                 NewProposal(generate_id, proposer, "List", token_name,
                             token_symbol, "Off", target_market,
                             TOTAL_REWARDS, now))

create_delist_proposal ==
    /\ ~finalized
    /\ \E proposer \in Proposers, token_name \in TokenNames :
          /\ MAX_SUPPLY - total_issuance >= TOTAL_REWARDS
          /\ token_name \in DOMAIN Tokens
          /\ CreateProposal(
                 clone_from_token_info(generate_id, proposer, "Delist", "Off",
                                       TOTAL_REWARDS, now, Tokens[token_name]))

create_rise_proposal ==
    /\ ~finalized
    /\ \E proposer \in Proposers, token_name \in TokenNames :
          /\ token_name \in DOMAIN Tokens
          /\ CreateProposal(
                 clone_from_token_info(generate_id, proposer, "Rise", "Main",
                                       0, now, Tokens[token_name]))

create_fall_proposal ==
    /\ ~finalized
    /\ \E proposer \in Proposers, token_name \in TokenNames :
          /\ token_name \in DOMAIN Tokens
          /\ CreateProposal(
                 clone_from_token_info(generate_id, proposer, "Fall", "Growth",
                                       0, now, Tokens[token_name]))

update_proposal_anystate(id, proposer, new_proposal) ==
    /\ id \in DOMAIN Proposals
    /\ Proposals[id].proposer = proposer
    /\ Proposals[id].state \in {"Pending", "Reviewing"}
    /\ Proposals' = Insert(Proposals, id, new_proposal)

update_proposal(id, proposer, new_proposal) ==
    /\ id \in DOMAIN Proposals
    /\ Proposals[id].proposer = proposer
    /\ Proposals[id].state = "Pending"
    /\ Proposals' = Insert(Proposals, id, new_proposal)

update_list_proposal ==
    /\ ~finalized
    /\ \E proposer \in Proposers, id \in DOMAIN Reviewers,
          token_name \in TokenNames, token_symbol \in TokenSymbols,
          target_market \in ListMarkets :
          /\ token_name \notin DOMAIN Tokens
          /\ update_proposal(id, proposer,
                 [NewProposal(id, proposer, "List", token_name, token_symbol,
                              "Off", target_market, TOTAL_REWARDS, now)
                    EXCEPT !.state = "Pending"])
    /\ result' = Ok(TRUE)
    /\ UNCHANGED <<now, finalized, VotingProposal, Tokens, Reviewers, Voters,
                   Staking, IdGenerator, free, reserved, total_issuance,
                   credited, claims, burns>>

remove_proposal_release_id(id, proposer) ==
    /\ id \in DOMAIN Proposals
    /\ Proposals[id].proposer = proposer
    /\ Proposals[id].state = "Pending"
    /\ Proposals' = Remove(Proposals, id)
    /\ IdGenerator' = IdGenerator - 1
    /\ result' = Ok(TRUE)
    /\ UNCHANGED <<now, finalized, VotingProposal, Tokens, Reviewers, Voters,
                   Staking, free, reserved, total_issuance,
                   credited, claims, burns>>

remove_proposal_anyone(id, proposer) ==
    /\ id \in DOMAIN Proposals
    /\ Proposals[id].state = "Pending"
    /\ Proposals' = Remove(Proposals, id)
    /\ result' = Ok(TRUE)
    /\ UNCHANGED <<now, finalized, VotingProposal, Tokens, Reviewers, Voters,
                   Staking, IdGenerator, free, reserved, total_issuance,
                   credited, claims, burns>>

remove_proposal(id, proposer) ==
    /\ id \in DOMAIN Proposals
    /\ Proposals[id].proposer = proposer
    /\ Proposals[id].state = "Pending"
    /\ Proposals' = Remove(Proposals, id)
    /\ result' = Ok(TRUE)
    /\ UNCHANGED <<now, finalized, VotingProposal, Tokens, Reviewers, Voters,
                   Staking, IdGenerator, free, reserved, total_issuance,
                   credited, claims, burns>>

delete_list_proposal ==
    ~finalized /\ \E proposer \in Proposers, id \in DOMAIN Reviewers :
                      remove_proposal(id, proposer)

delete_delist_proposal ==
    ~finalized /\ \E proposer \in Proposers, id \in DOMAIN Reviewers :
                      remove_proposal(id, proposer)

delete_rise_proposal ==
    ~finalized /\ \E proposer \in Proposers, id \in DOMAIN Reviewers :
                      remove_proposal(id, proposer)

delete_fall_proposal ==
    ~finalized /\ \E proposer \in Proposers, id \in DOMAIN Reviewers :
                      remove_proposal(id, proposer)

review_proposal ==
    /\ ~finalized
    /\ \E member \in CouncilMembers, id \in DOMAIN Reviewers, stand \in BOOLEAN :
          /\ id \in DOMAIN Proposals
          /\ Proposals[id].state = "Reviewing"
          /\ member \notin Range(Reviewers[id])
          /\ Reviewers' = [Reviewers EXCEPT ![id] = Append(@, member)]
          /\ Proposals' = [Proposals EXCEPT
                ![id].review_goals =
                    IF stand THEN <<@[1] + 1, @[2]>> ELSE <<@[1], @[2] + 1>>]
    /\ result' = Ok(TRUE)
    /\ UNCHANGED <<now, finalized, VotingProposal, Tokens, Voters, Staking,
                   IdGenerator, free, reserved, total_issuance, credited,
                   claims, burns>>

vote_proposal_call_again(user, id, amount, age_idx, stand) ==
    /\ id \in DOMAIN Proposals
    /\ Proposals[id].state = "Voting"
    /\ free[user] >= amount                            \* Currency::reserve
    /\ age_idx \in 0 .. (Len(AGE_DAY) - 1)
    /\ free' = [free EXCEPT ![user] = @ - amount]
    /\ reserved' = [reserved EXCEPT ![user] = @ + amount]
    /\ Voters' = [Voters EXCEPT ![id] = Append(@, user)]
    /\ LET goals == get_goals_from_staking(amount, age_idx)
       IN  Proposals' = [Proposals EXCEPT
              ![id].vote_goals =
                  IF stand THEN <<@[1] + goals, @[2]>>
                  ELSE <<@[1], @[2] + goals>>]
    /\ Staking' = [Staking EXCEPT ![user] = Append(@,
           [proposal_id |-> id, staking_amount |-> amount,
            age_idx |-> age_idx, wheather_received_reward |-> FALSE,
            timestamp |-> now])]
    /\ result' = Ok(TRUE)
    /\ UNCHANGED <<now, finalized, VotingProposal, Tokens, Reviewers,
                   IdGenerator, total_issuance, credited, claims, burns>>

vote_proposal_call(user, id, amount, age_idx, stand) ==
    /\ id \in DOMAIN Proposals
    /\ Proposals[id].state = "Voting"
    /\ user \notin Range(Voters[id])
    /\ free[user] >= amount                            \* Currency::reserve
    /\ age_idx \in 0 .. (Len(AGE_DAY) - 1)
    /\ free' = [free EXCEPT ![user] = @ - amount]
    /\ reserved' = [reserved EXCEPT ![user] = @ + amount]
    /\ Voters' = [Voters EXCEPT ![id] = Append(@, user)]
    /\ LET goals == get_goals_from_staking(amount, age_idx)
       IN  Proposals' = [Proposals EXCEPT
              ![id].vote_goals =
                  IF stand THEN <<@[1] + goals, @[2]>>
                  ELSE <<@[1], @[2] + goals>>]
    /\ Staking' = [Staking EXCEPT ![user] = Append(@,
           [proposal_id |-> id, staking_amount |-> amount,
            age_idx |-> age_idx, wheather_received_reward |-> FALSE,
            timestamp |-> now])]
    /\ result' = Ok(TRUE)
    /\ UNCHANGED <<now, finalized, VotingProposal, Tokens, Reviewers,
                   IdGenerator, total_issuance, credited, claims, burns>>

vote_proposal ==
    /\ ~finalized
    /\ \E user \in VoterAccounts, id \in ProposalIds, amount \in Amounts,
          age_idx \in AgeIdxs, stand \in BOOLEAN :
          vote_proposal_call(user, id, amount, age_idx, stand)

\* rewards_remainder -= reward below zero panics in a build with overflow
\* checks (the call is dropped) and wraps in a build without them
receive_rewards ==
    /\ ~finalized
    /\ claims < MaxClaims
    /\ \E user \in VoterAccounts, id \in ProposalIds :
          /\ user \in Range(Voters[id])
          /\ id \in DOMAIN Proposals
          /\ Proposals[id].state \in {"Approved", "Rejected"}
          /\ get_staking_info(user, id) # {}
          /\ LET stake_info == CHOOSE i \in get_staking_info(user, id) : TRUE
                 goals == get_goals_from_staking(stake_info.staking_amount,
                                                 stake_info.age_idx)
                 total_goals == Proposals[id].vote_goals[1]
                                    + Proposals[id].vote_goals[2]
             IN  /\ total_goals # 0
                 /\ LET reward == MulDivFloor(TOTAL_REWARDS, goals, total_goals)
                        paid == deposit_into_existing(Store, user, reward)
                    IN  /\ paid.ok
                        /\ free' = paid.s.free
                        /\ total_issuance' = paid.s.ti
                        /\ Proposals' = [Proposals EXCEPT
                              ![id].rewards_remainder = @ - reward]
                        /\ credited' = [credited EXCEPT ![id][user] = @ + reward]
          /\ Staking' = [Staking EXCEPT ![user] =
                 [i \in 1 .. Len(@) |->
                    IF @[i].proposal_id = id
                    THEN [@[i] EXCEPT !.wheather_received_reward = TRUE]
                    ELSE @[i]]]
    /\ claims' = claims + 1
    /\ result' = Ok(TRUE)
    /\ UNCHANGED <<now, finalized, VotingProposal, Tokens, Reviewers, Voters,
                   IdGenerator, reserved, burns>>

unstake_call(user, id) ==
    /\ get_staking_info(user, id) # {}
    /\ LET stake_info == CHOOSE i \in get_staking_info(user, id) : TRUE
           stake_days == AGE_DAY[stake_info.age_idx + 1][2]
           duration == now - stake_info.timestamp
           released == Min(reserved[user], stake_info.staking_amount)
       IN  /\ duration >= stake_days
           /\ reserved' = [reserved EXCEPT ![user] = @ - released]
           /\ free' = [free EXCEPT ![user] = @ + released]
           /\ Staking' = [Staking EXCEPT ![user] = RemoveItem(@, stake_info)]
    /\ result' = Ok(FALSE)
    /\ UNCHANGED <<now, finalized, Proposals, VotingProposal, Tokens,
                   Reviewers, Voters, IdGenerator, total_issuance, credited,
                   claims, burns>>

unstake ==
    /\ ~finalized
    /\ \E user \in VoterAccounts, id \in ProposalIds : unstake_call(user, id)

burn ==
    /\ ~finalized
    /\ burns < MaxBurns
    /\ \E user \in VoterAccounts, burn_amount \in BurnAmounts :
          /\ free' = [free EXCEPT ![user] = SlashFree(@, burn_amount)]
          /\ reserved' = [reserved EXCEPT
                ![user] = SlashReserved(free[user], @, burn_amount)]
          /\ total_issuance' = BurnIssuance(total_issuance, burn_amount)
    /\ burns' = burns + 1
    /\ result' = Ok(FALSE)
    /\ UNCHANGED <<now, finalized, Proposals, VotingProposal, Tokens,
                   Reviewers, Voters, Staking, IdGenerator, credited, claims>>

Next ==
    \/ SetTimestamp
    \/ on_finalize
    \/ create_list_proposal
    \/ update_list_proposal
    \/ delete_list_proposal
    \/ create_delist_proposal
    \/ delete_delist_proposal
    \/ create_rise_proposal
    \/ delete_rise_proposal
    \/ create_fall_proposal
    \/ delete_fall_proposal
    \/ review_proposal
    \/ vote_proposal
    \/ receive_rewards
    \/ unstake
    \/ burn

Spec == Init /\ [][Next]_vars

(***************************************************************************)
(* Dispatch results.  For each extrinsic, the error its guards return for  *)
(* given arguments in the current state, in the order the code evaluates   *)
(* them: "Ok" when every guard passes, "Panic" when the call runs into an  *)
(* unwrap of None or a division by zero.                                   *)
(***************************************************************************)
CallIds == 0 .. MaxId
CallAgeIdxs == AgeIdxs \cup {6, 255}

create_list_proposal_result(token_name) ==
    CASE MAX_SUPPLY - total_issuance < TOTAL_REWARDS -> "InsufficientIssuance"
      [] token_name \in DOMAIN Tokens -> "TokenExists"
      [] OTHER -> "Ok"

create_delist_proposal_result(token_name) ==
    CASE MAX_SUPPLY - total_issuance < TOTAL_REWARDS -> "InsufficientIssuance"
      [] token_name \notin DOMAIN Tokens -> "TokenNotFound"
      [] OTHER -> "Ok"

create_rise_proposal_result(token_name) ==
    IF token_name \notin DOMAIN Tokens THEN "TokenNotFound" ELSE "Ok"

create_fall_proposal_result(token_name) ==
    IF token_name \notin DOMAIN Tokens THEN "TokenNotFound" ELSE "Ok"

update_proposal_result(id, proposer) ==
    CASE id \notin DOMAIN Proposals -> "ProposalNotFound"
      [] Proposals[id].proposer # proposer -> "NotYourProposal"
      [] Proposals[id].state # "Pending" -> "ProposalCannotBeModified"
      [] OTHER -> "Ok"

update_list_proposal_result(proposer, id, token_name) ==
    IF token_name \in DOMAIN Tokens THEN "TokenExists"
    ELSE update_proposal_result(id, proposer)

remove_proposal_result(id, proposer) ==
    CASE id \notin DOMAIN Proposals -> "ProposalNotFound"
      [] Proposals[id].proposer # proposer -> "NotYourProposal"
      [] Proposals[id].state # "Pending" -> "ProposalCannotBeModified"
      [] OTHER -> "Ok"

review_proposal_result(member, id) ==
    CASE member \notin CouncilMembers -> "NotInCollective"
      [] id \notin DOMAIN Proposals -> "ProposalNotFound"
      [] Proposals[id].state # "Reviewing" -> "ProposalCannotBeReviewed"
      [] member \in Range(Reviewers[id]) -> "AlreadyReview"
      [] OTHER -> "Ok"

\* the unwrap of AGE_DAY.get(age_idx) is reached after the reserve and the
\* push to the voter list
vote_proposal_result(user, id, amount, age_idx) ==
    CASE id \notin DOMAIN Proposals -> "ProposalNotFound"
      [] Proposals[id].state # "Voting" -> "ProposalCannotBeVoted"
      [] user \in Range(Voters[id]) -> "AlreadyVote"
      [] free[user] < amount -> "InsufficientFunds"
      [] age_idx \notin 0 .. (Len(AGE_DAY) - 1) -> "Panic"
      [] OTHER -> "Ok"

receive_rewards_result(user, id) ==
    CASE id \notin DOMAIN Voters \/ user \notin Range(Voters[id]) -> "NoVote"
      [] id \notin DOMAIN Proposals -> "ProposalNotFound"
      [] Proposals[id].state \notin {"Approved", "Rejected"} ->
             "StateNotForRewards"
      [] get_staking_info(user, id) = {} -> "NoneStaking"
      [] Proposals[id].vote_goals[1] + Proposals[id].vote_goals[2] = 0 ->
             "Panic"
      [] OTHER ->
             LET stake_info == CHOOSE i \in get_staking_info(user, id) : TRUE
                 goals == get_goals_from_staking(stake_info.staking_amount,
                                                 stake_info.age_idx)
                 total_goals == Proposals[id].vote_goals[1]
                                    + Proposals[id].vote_goals[2]
                 reward == MulDivFloor(TOTAL_REWARDS, goals, total_goals)
             IN  CASE ~(reward >= 0 /\ MAX_SUPPLY - total_issuance >= reward) ->
                          "InsufficientIssuance"
                   [] ~AccountExists(free, reserved, user) -> "NoAccount"
                   [] OTHER -> "Ok"

\* rewards_remainder -= reward below zero: a panic in a build with overflow
\* checks
receive_rewards_overflows(user, id) ==
    /\ receive_rewards_result(user, id) = "Ok"
    /\ LET stake_info == CHOOSE i \in get_staking_info(user, id) : TRUE
           goals == get_goals_from_staking(stake_info.staking_amount,
                                           stake_info.age_idx)
           total_goals == Proposals[id].vote_goals[1]
                              + Proposals[id].vote_goals[2]
           reward == MulDivFloor(TOTAL_REWARDS, goals, total_goals)
       IN  /\ Proposals[id].rewards_remainder >= 0
           /\ Proposals[id].rewards_remainder < reward

unstake_result(user, id) ==
    IF get_staking_info(user, id) = {} THEN "NoneStaking"
    ELSE LET stake_info == CHOOSE i \in get_staking_info(user, id) : TRUE
         IN  CASE stake_info.age_idx \notin 0 .. (Len(AGE_DAY) - 1) -> "Panic"
               [] now - stake_info.timestamp
                      < AGE_DAY[stake_info.age_idx + 1][2] -> "StillInStaking"
               [] OTHER -> "Ok"

(***************************************************************************)
(* Calls that do not return Ok.  Every error is returned before the first  *)
(* write of its handler, and what a handler wrote before a panic is        *)
(* discarded with the extrinsic: nothing but the result changes.           *)
(***************************************************************************)
DroppedAfterGenerateId ==
    /\ IdGenerator' = IdGenerator + 1
    /\ UNCHANGED <<now, finalized, Proposals, VotingProposal, Tokens,
                   Reviewers, Voters, Staking, free, reserved, total_issuance,
                   credited, claims, burns>>

\* an error return: the handler has written nothing yet
Dropped ==
    UNCHANGED <<now, finalized, Proposals, VotingProposal, Tokens, Reviewers,
                Voters, Staking, IdGenerator, free, reserved, total_issuance,
                credited, claims, burns>>

\* a panic: the host discards the writes of the extrinsic
Discarded ==
    UNCHANGED <<now, finalized, Proposals, VotingProposal, Tokens, Reviewers,
                Voters, Staking, IdGenerator, free, reserved, total_issuance,
                credited, claims, burns>>

Fails(res) ==
    /\ ~finalized
    /\ res # "Ok"
    /\ IF res = "Panic" THEN result' = Panicked /\ Discarded
       ELSE result' = Err(res) /\ Dropped

create_list_proposal_fails ==
    \E res \in {create_list_proposal_result(token_name) :
                    token_name \in TokenNames} : Fails(res)

create_delist_proposal_fails ==
    \E res \in {create_delist_proposal_result(token_name) :
                    token_name \in TokenNames} : Fails(res)

create_rise_proposal_fails ==
    \E res \in {create_rise_proposal_result(token_name) :
                    token_name \in TokenNames} : Fails(res)

create_fall_proposal_fails ==
    \E res \in {create_fall_proposal_result(token_name) :
                    token_name \in TokenNames} : Fails(res)

update_list_proposal_fails ==
    \E res \in {update_list_proposal_result(c[1], c[2], c[3]) :
                    c \in Signers \X CallIds \X TokenNames} : Fails(res)

delete_proposal_fails ==
    \E res \in {remove_proposal_result(c[2], c[1]) :
                    c \in Signers \X CallIds} : Fails(res)

review_proposal_fails ==
    \E res \in {review_proposal_result(c[1], c[2]) :
                    c \in Signers \X CallIds} : Fails(res)

vote_proposal_fails ==
    \E res \in {vote_proposal_result(c[1], c[2], c[3], c[4]) :
                    c \in Signers \X CallIds \X Amounts \X CallAgeIdxs} :
        Fails(res)

receive_rewards_fails ==
    \E res \in {receive_rewards_result(c[1], c[2]) : c \in Signers \X CallIds}
                \cup {"Panic" : c \in {d \in Signers \X CallIds :
                                     receive_rewards_overflows(d[1], d[2])}} :
        Fails(res)

unstake_fails ==
    \E res \in {unstake_result(c[1], c[2]) : c \in Signers \X CallIds} :
        Fails(res)

InitDispatch ==
    /\ now = 0
    /\ finalized = TRUE
    /\ Proposals = <<>>
    /\ VotingProposal = {}
    /\ Tokens = <<>>
    /\ Reviewers = [i \in ProposalIds |-> <<>>]
    /\ Voters = [i \in ProposalIds |-> <<>>]
    /\ Staking = [a \in Accounts |-> <<>>]
    /\ IdGenerator = 0
    /\ free = [a \in Accounts |->
                 CASE a = "bob" -> 1000
                   [] a = "charlie" -> 100
                   [] a = Treasury -> 1
                   [] OTHER -> 0]
    /\ reserved = [a \in Accounts |-> 0]
    /\ total_issuance = MAX_SUPPLY - TOTAL_REWARDS
    /\ credited = [i \in ProposalIds |-> [a \in Accounts |-> 0]]
    /\ claims = 0
    /\ burns = 0
    /\ result = NoCall

\* The proposal lifecycle with the calls that fail; unstake and burn succeed
\* under Spec only.
NextDispatch ==
    \/ SetTimestamp
    \/ on_finalize
    \/ create_list_proposal
    \/ update_list_proposal
    \/ delete_list_proposal
    \/ create_delist_proposal
    \/ delete_delist_proposal
    \/ create_rise_proposal
    \/ delete_rise_proposal
    \/ create_fall_proposal
    \/ delete_fall_proposal
    \/ review_proposal
    \/ vote_proposal
    \/ receive_rewards
    \/ create_list_proposal_fails
    \/ create_delist_proposal_fails
    \/ create_rise_proposal_fails
    \/ create_fall_proposal_fails
    \/ update_list_proposal_fails
    \/ delete_proposal_fails
    \/ review_proposal_fails
    \/ vote_proposal_fails
    \/ receive_rewards_fails
    \/ unstake_fails

SpecDispatch == InitDispatch /\ [][NextDispatch]_vars

(***************************************************************************)
(* Review outcomes: a store in which proposal 0 is closed and one of the   *)
(* proposals 1, 2 is in Reviewing with an arbitrary kind and tally, the    *)
(* other one absent or in Voting, in a block that is REVIEW_DURATION or    *)
(* one millisecond more after they entered these states; the block cycle   *)
(* then runs the scheduler.                                                *)
(***************************************************************************)
ReviewedProposal(id, kind, s, o) ==
    [NewProposal(id, "alice", kind, "X", "SYM",
                 IF kind = "List" THEN "Off" ELSE "Growth",
                 CASE kind = "Rise" -> "Main"
                   [] kind = "Fall" -> "Growth"
                   [] kind = "Delist" -> "Off"
                   [] OTHER -> "Growth",
                 IF kind \in {"List", "Delist"} THEN TOTAL_REWARDS ELSE 0, 0)
       EXCEPT !.state = "Reviewing", !.review_goals = <<s, o>>]

InitReview ==
    \E kind \in {"List", "Delist", "Rise", "Fall"}, s \in 0 .. MaxTally,
       o \in 0 .. MaxTally, r \in {1, 2}, active \in BOOLEAN,
       t \in {REVIEW_DURATION, REVIEW_DURATION + 1} :
       LET other == 3 - r
           listed == kind # "List"
           closed == [NewProposal(0, "alice", "List", "X", "SYM", "Off",
                                  "Growth", 0, 0)
                        EXCEPT !.state = IF listed THEN "ApprovedClosed"
                                         ELSE "RejectedClosed",
                               !.review_goals = IF listed THEN <<1, 0>>
                                                ELSE <<0, 1>>,
                               !.rewards_remainder = TOTAL_REWARDS]
           voting == [NewProposal(other, "alice",
                                  IF listed THEN "Delist" ELSE "List", "X",
                                  "SYM", IF listed THEN "Growth" ELSE "Off",
                                  IF listed THEN "Off" ELSE "Growth",
                                  TOTAL_REWARDS, 0)
                        EXCEPT !.state = "Voting", !.review_goals = <<1, 0>>]
           reviewed == ReviewedProposal(r, kind, s, o)
           council == <<"c1", "c2", "c3", "c4", "c5", "c6", "c7", "c8">>
       IN  /\ now = t
           /\ finalized = FALSE
           /\ Proposals = [i \in IF active THEN {0, r, other} ELSE {0, r} |->
                             CASE i = 0 -> closed
                               [] i = r -> reviewed
                               [] OTHER -> voting]
           /\ VotingProposal = IF active THEN {other} ELSE {}
           /\ Tokens = IF listed
                       THEN [n \in {"X"} |->
                               [token_name |-> "X", token_symbol |-> "SYM",
                                current_market |-> "Growth"]]
                       ELSE <<>>
           /\ Reviewers = [i \in ReviewIds |->
                             IF i = r THEN SubSeq(council, 1, s + o)
                             ELSE <<"c1">>]
           /\ Voters = [i \in ReviewIds |-> <<>>]
           /\ Staking = [a \in Accounts |-> <<>>]
           /\ IdGenerator = 3
           /\ free = [a \in Accounts |-> IF a = Treasury THEN 1 ELSE 0]
           /\ reserved = [a \in Accounts |-> 0]
           /\ total_issuance = MAX_SUPPLY - 2 * TOTAL_REWARDS
           /\ credited = [i \in ReviewIds |-> [a \in Accounts |-> 0]]
           /\ claims = 0
           /\ burns = 0
           /\ result = NoCall

NextReview == SetTimestamp \/ on_finalize

SpecReview == InitReview /\ [][NextReview]_vars

(***************************************************************************)
(* Settlement under the issuance cap: a store at the end of the block in   *)
(* which proposal 0, voted on by bob alone and never claimed, was closed   *)
(* and proposal 1 entered Voting, with the whole of MAX_SUPPLY issued or   *)
(* room for one reward pool left.  Votes, claims, unstakes and the block   *)
(* cycle follow.                                                           *)
(***************************************************************************)
InitClose ==
    \E listed \in BOOLEAN, room \in {0, TOTAL_REWARDS} :
       LET closed == [NewProposal(0, "alice", "List", "X", "SYM", "Off",
                                  "Growth", TOTAL_REWARDS, 0)
                        EXCEPT !.state = IF listed THEN "ApprovedClosed"
                                         ELSE "RejectedClosed",
                               !.review_goals = <<1, 0>>,
                               !.vote_goals =
                                   IF listed
                                   THEN <<get_goals_from_staking(1000, 0), 0>>
                                   ELSE <<0, get_goals_from_staking(1000, 0)>>]
           voting == [NewProposal(1, "alice",
                                  IF listed THEN "Delist" ELSE "List", "X",
                                  "SYM", IF listed THEN "Growth" ELSE "Off",
                                  IF listed THEN "Off" ELSE "Growth",
                                  TOTAL_REWARDS, 0)
                        EXCEPT !.state = "Voting", !.review_goals = <<1, 0>>]
       IN  /\ now = 0
           /\ finalized = TRUE
           /\ Proposals = [i \in {0, 1} |-> IF i = 0 THEN closed ELSE voting]
           /\ VotingProposal = {1}
           /\ Tokens = IF listed
                       THEN [n \in {"X"} |-> clone_from_proposal(closed)]
                       ELSE <<>>
           /\ Reviewers = [i \in ProposalIds |-> <<"alice">>]
           /\ Voters = [i \in ProposalIds |->
                          IF i = 0 THEN <<"bob">> ELSE <<>>]
           /\ Staking = [a \in Accounts |-> <<>>]
           /\ IdGenerator = 2
           /\ free = [a \in Accounts |->
                        CASE a = "bob" -> 1000
                          [] a = "charlie" -> 100
                          [] a = Treasury -> 1 + TOTAL_REWARDS
                          [] OTHER -> 0]
           /\ reserved = [a \in Accounts |-> 0]
           /\ total_issuance = MAX_SUPPLY - room
           /\ credited = [i \in ProposalIds |-> [a \in Accounts |-> 0]]
           /\ claims = 0
           /\ burns = 0
           /\ result = NoCall

NextClose ==
    \/ SetTimestamp
    \/ on_finalize
    \/ vote_proposal
    \/ receive_rewards
    \/ receive_rewards_fails
    \/ unstake

SpecClose == InitClose /\ [][NextClose]_vars

(***************************************************************************)
(* Lock periods: from the same store, with proposal 1 in Voting, blocks    *)
(* whose timestamps lie one millisecond before and on every full minute;   *)
(* votes with every row of AGE_DAY, unstake and burn.                      *)
(***************************************************************************)
MaxStakeMinutes == 7    \* minutes after the first block
StakeBlockTimes == {1, MINUTE - 1}
StakeAgeIdxs == 0 .. (Len(AGE_DAY) - 1)
StakeAmounts == {100}
StakeVoters == {"bob"}

SetTimestampMinute ==
    /\ finalized
    /\ \E d \in StakeBlockTimes :
          /\ (now + d) % MINUTE \in {0, MINUTE - 1}
          /\ now + d <= MaxStakeMinutes * MINUTE
          /\ now' = now + d
    /\ finalized' = FALSE
    /\ result' = NoCall
    /\ UNCHANGED <<Proposals, VotingProposal, Tokens, Reviewers, Voters,
                   Staking, IdGenerator, free, reserved, total_issuance,
                   credited, claims, burns>>

vote_proposal_any_age ==
    /\ ~finalized
    /\ \E user \in StakeVoters, id \in ProposalIds, amount \in StakeAmounts,
          age_idx \in StakeAgeIdxs, stand \in BOOLEAN :
          vote_proposal_call(user, id, amount, age_idx, stand)

NextStake ==
    \/ SetTimestampMinute
    \/ on_finalize
    \/ vote_proposal_any_age
    \/ unstake
    \/ unstake_fails
    \/ burn

SpecStake == InitClose /\ [][NextStake]_vars

\* The lock periods without burn: every change of a reserve is a vote or an
\* unstake.
NextLock ==
    \/ SetTimestampMinute
    \/ on_finalize
    \/ vote_proposal_any_age
    \/ unstake
    \/ unstake_fails

SpecLock == InitClose /\ [][NextLock]_vars

(***************************************************************************)
(* The token registry: a store at the end of the block in which token X,   *)
(* listed by proposal 0, is the subject of the Delist proposal 1 that has  *)
(* entered Voting; a third proposal can be created.  Rise and Fall         *)
(* proposals, reviews, votes, updates, deletions and the block cycle       *)
(* follow.                                                                 *)
(***************************************************************************)
InitRegistry ==
    LET closed == [NewProposal(0, "alice", "List", "X", "SYM", "Off",
                               "Growth", TOTAL_REWARDS, 0)
                     EXCEPT !.state = "ApprovedClosed",
                            !.review_goals = <<1, 0>>,
                            !.vote_goals =
                                <<get_goals_from_staking(1000, 0), 0>>]
        voting == [clone_from_token_info(1, "alice", "Delist", "Off",
                                         TOTAL_REWARDS, 0,
                                         clone_from_proposal(closed))
                     EXCEPT !.state = "Voting", !.review_goals = <<1, 0>>]
    IN  /\ now = 0
        /\ finalized = TRUE
        /\ Proposals = [i \in {0, 1} |-> IF i = 0 THEN closed ELSE voting]
        /\ VotingProposal = {1}
        /\ Tokens = [n \in {"X"} |-> clone_from_proposal(closed)]
        /\ Reviewers = [i \in ReviewIds |->
                          IF i \in {0, 1} THEN <<"alice">> ELSE <<>>]
        /\ Voters = [i \in ReviewIds |-> IF i = 0 THEN <<"bob">> ELSE <<>>]
        /\ Staking = [a \in Accounts |-> <<>>]
        /\ IdGenerator = 2
        /\ free = [a \in Accounts |->
                     CASE a = "bob" -> 1000
                       [] a = "charlie" -> 100
                       [] a = Treasury -> 1 + TOTAL_REWARDS
                       [] OTHER -> 0]
        /\ reserved = [a \in Accounts |-> 0]
        /\ total_issuance = MAX_SUPPLY - TOTAL_REWARDS
        /\ credited = [i \in ReviewIds |-> [a \in Accounts |-> 0]]
        /\ claims = 0
        /\ burns = 0
        /\ result = NoCall

NextRegistry ==
    \/ SetTimestamp
    \/ on_finalize
    \/ create_rise_proposal
    \/ create_fall_proposal
    \/ update_list_proposal
    \/ delete_rise_proposal
    \/ review_proposal
    \/ vote_proposal

SpecRegistry == InitRegistry /\ [][NextRegistry]_vars

(***************************************************************************)
(* Vote outcomes: from the store of InitClose, with proposal 1 in Voting,  *)
(* ballots of amount 0, 100 and 1000 with the first and the fifth row of   *)
(* AGE_DAY (1000 at age 0 weighs twice 100 at age 4), claims and the block *)
(* cycle.                                                                  *)
(***************************************************************************)
VoteAmounts == {0, 100, 1000}
VoteAgeIdxs == {0, 4}

vote_proposal_weighted ==
    /\ ~finalized
    /\ \E user \in VoterAccounts, id \in ProposalIds, amount \in VoteAmounts,
          age_idx \in VoteAgeIdxs, stand \in BOOLEAN :
          vote_proposal_call(user, id, amount, age_idx, stand)

NextVote ==
    \/ SetTimestamp
    \/ on_finalize
    \/ vote_proposal_weighted
    \/ receive_rewards
    \/ receive_rewards_fails

SpecVote == InitClose /\ [][NextVote]_vars

(***************************************************************************)
(* Runs without an end.  The handlers read the clock and the stored        *)
(* timestamps only in the differences now - timestamp, which they compare  *)
(* with durations shorter than one block time of BlockTimes; so the clock  *)
(* and the timestamps are counted from the start of the previous block,    *)
(* and a timestamp older than that counts as that old.  Every comparison   *)
(* of the handlers has the value it has with the clock of SetTimestamp.    *)
(* Blocks follow one another for ever and every block is finalized.        *)
(***************************************************************************)
Rebase(timestamp, d) == d - Min(now + d - timestamp, d)

SetTimestampRebased ==
    /\ finalized
    /\ \E d \in BlockTimes :
          /\ now' = d
          /\ Proposals' = [i \in DOMAIN Proposals |->
                [Proposals[i] EXCEPT !.timestamp = Rebase(@, d)]]
          /\ Staking' = [a \in Accounts |->
                [k \in 1 .. Len(Staking[a]) |->
                    [Staking[a][k] EXCEPT !.timestamp = Rebase(@, d)]]]
    /\ finalized' = FALSE
    /\ result' = NoCall
    /\ UNCHANGED <<VotingProposal, Tokens, Reviewers, Voters, IdGenerator,
                   free, reserved, total_issuance, credited, claims, burns>>

NextLive ==
    \/ SetTimestampRebased
    \/ on_finalize
    \/ create_list_proposal
    \/ update_list_proposal
    \/ delete_list_proposal
    \/ create_delist_proposal
    \/ create_rise_proposal
    \/ create_fall_proposal
    \/ review_proposal
    \/ vote_proposal

SpecLive ==
    /\ Init
    /\ [][NextLive]_vars
    /\ WF_vars(SetTimestampRebased)
    /\ WF_vars(on_finalize)

(***************************************************************************)
(* Properties.                                                             *)
(***************************************************************************)
RECURSIVE SumStaked(_)
SumStaked(infos) ==
    IF infos = <<>> THEN 0
    ELSE Head(infos).staking_amount + SumStaked(Tail(infos))

RECURSIVE SumOver(_, _)
SumOver(f, S) ==
    IF S = {} THEN 0
    ELSE LET x == CHOOSE y \in S : TRUE IN f[x] + SumOver(f, S \ {x})

SumCredited(id) == SumOver(credited[id], Accounts)

InVoting == {i \in DOMAIN Proposals : Proposals[i].state = "Voting"}

FinalizeStep == ~finalized /\ finalized'

ReviewTimedOut(i) ==
    /\ Proposals[i].state = "Reviewing"
    /\ now - Proposals[i].timestamp > REVIEW_DURATION

\* a List/Delist proposal whose review has timed out with quorum
ReadyForVoting(i) ==
    /\ ReviewTimedOut(i)
    /\ \/ /\ Proposals[i].proposal_type = "List"
          /\ Proposals[i].review_goals[1] >= 2 * Proposals[i].review_goals[2]
          /\ Proposals[i].review_goals[1] + Proposals[i].review_goals[2] > 0
       \/ /\ Proposals[i].proposal_type = "Delist"
          /\ Proposals[i].review_goals[1] > Proposals[i].review_goals[2]

\* C1: at most one proposal is in Voting, VotingProposal is present exactly
\* when there is one and holds its id; it is set only by a step that takes
\* that proposal from Reviewing to Voting and cleared only by a step that
\* takes the proposal it held from Voting to Approved or Rejected.
C1_AtMostOneVote ==
    /\ [](Cardinality(InVoting) <= 1 /\ VotingProposal = InVoting)
    /\ [][/\ \A i \in VotingProposal' \ VotingProposal :
                /\ i \in DOMAIN Proposals
                /\ Proposals[i].state = "Reviewing"
                /\ Proposals'[i].state = "Voting"
          /\ \A i \in VotingProposal \ VotingProposal' :
                /\ Proposals[i].state = "Voting"
                /\ Proposals'[i].state \in {"Approved", "Rejected"}]_vars

\* C1 witness: a proposal is in Voting and holds the singleton while another
\* one, past its review timeout, waits in Reviewing.
C1_Witness ==
    \E i, j \in DOMAIN Proposals :
        /\ Proposals[i].state = "Voting"
        /\ VotingProposal = {i}
        /\ ReadyForVoting(j)

LifecycleEdges ==
    {<<"Pending", "Reviewing">>, <<"Reviewing", "Voting">>,
     <<"Reviewing", "Approved">>, <<"Reviewing", "RejectedClosed">>,
     <<"Voting", "Approved">>, <<"Voting", "Rejected">>,
     <<"Approved", "ApprovedClosed">>, <<"Rejected", "RejectedClosed">>}

\* C2: in every step the state of every stored proposal stays the same or
\* moves along one edge of the lifecycle; nothing moves backwards and the
\* closed states are never left.
C2_MonotoneLifecycle ==
    [][\A i \in (DOMAIN Proposals) \cap (DOMAIN Proposals') :
          \/ Proposals'[i].state = Proposals[i].state
          \/ <<Proposals[i].state, Proposals'[i].state>> \in LifecycleEdges]_vars

\* C2 witness: a proposal has walked the whole lifecycle while another one
\* was rejected by the public vote.
C2_Witness ==
    \E i, j \in DOMAIN Proposals :
        /\ Proposals[i].state = "ApprovedClosed"
        /\ Proposals[j].state \in {"Rejected", "Voting"}

\* C3: for a List/Delist proposal the rewards credited to its voters never
\* exceed R, and once it is closed the credited rewards plus the remainder
\* are R.
C3_RewardConservation ==
    \A i \in DOMAIN Proposals :
        Proposals[i].proposal_type \in {"List", "Delist"} =>
            /\ SumCredited(i) <= TOTAL_REWARDS
            /\ Proposals[i].state \in {"ApprovedClosed", "RejectedClosed"} =>
                  /\ Proposals[i].rewards_remainder >= 0
                  /\ SumCredited(i) + Proposals[i].rewards_remainder
                         = TOTAL_REWARDS

\* C4: an account whose StakingInfo for a proposal is marked as rewarded is
\* credited nothing more for that proposal.
C4_NoSecondClaim ==
    [][\A a \in Accounts, i \in ProposalIds :
          (\E k \in 1 .. Len(Staking[a]) :
               /\ Staking[a][k].proposal_id = i
               /\ Staking[a][k].wheather_received_reward)
          => credited'[i][a] = credited[i][a]]_vars

\* Every vote weight of the model is a multiple of WeightUnit (amounts are
\* multiples of 100, vote ages multiples of 25).
WeightUnit == 100 * 25

\* C5: a successful receive_rewards(id) credits the caller r with
\* r = floor(R * amount * vote_age / (S + O)), amount and age_idx from the
\* caller's StakingInfo, and lowers rewards_remainder by r.
C5_RewardFormula ==
    [][claims' # claims =>
          \E a \in Accounts, i \in DOMAIN Proposals :
              /\ get_staking_info(a, i) # {}
              /\ LET info == CHOOSE x \in get_staking_info(a, i) : TRUE
                     g == (info.staking_amount * AGE_DAY[info.age_idx + 1][1])
                              \div WeightUnit
                     total == (Proposals[i].vote_goals[1]
                                  + Proposals[i].vote_goals[2]) \div WeightUnit
                     r == credited'[i][a] - credited[i][a]
                 IN  /\ r >= 0
                     /\ r * total <= TOTAL_REWARDS * g
                     /\ TOTAL_REWARDS * g < (r + 1) * total
                     /\ free' = [free EXCEPT ![a] = @ + r]
                     /\ total_issuance' = total_issuance + r
                     /\ Proposals' = [Proposals EXCEPT
                           ![i].rewards_remainder = @ - r]
                     /\ credited' = [credited EXCEPT ![i][a] = @ + r]]_vars

\* C5 witness: weights 1_000_000 and 100_000 were paid 90_909 and 9_090 and
\* the remainder is 1.
C5_Witness ==
    \E i \in DOMAIN Proposals :
        /\ Proposals[i].vote_goals = <<1000000, 100000>>
        /\ credited[i]["bob"] = 90909
        /\ credited[i]["charlie"] = 9090
        /\ Proposals[i].rewards_remainder = 1

\* C6: total_issuance never exceeds MAX_SUPPLY.
C6_IssuanceCap == total_issuance <= MAX_SUPPLY

\* C6 witness: rewards were credited and the next claim of a voter is larger
\* than what is left under the cap.
C6_Witness ==
    /\ claims > 0
    /\ claims < MaxClaims
    /\ ~finalized
    /\ \E a \in VoterAccounts, i \in DOMAIN Proposals :
          /\ a \in Range(Voters[i])
          /\ Proposals[i].state \in {"Approved", "Rejected"}
          /\ get_staking_info(a, i) # {}
          /\ AccountExists(free, reserved, a)
          /\ LET info == CHOOSE x \in get_staking_info(a, i) : TRUE
                 goals == info.staking_amount * AGE_DAY[info.age_idx + 1][1]
                 total == Proposals[i].vote_goals[1]
                              + Proposals[i].vote_goals[2]
             IN  MulDivPair(TOTAL_REWARDS, goals, total)[1]
                     > MAX_SUPPLY - total_issuance

\* C7: the stakes an account holds are covered by its reserved balance.
C7_EscrowConservation ==
    \A a \in Accounts : SumStaked(Staking[a]) <= reserved[a]

\* C8 as stated: of the proposals ready for Voting when the scheduler runs
\* with no vote active, the one with the lowest id moves to Voting and every
\* other one stays in Reviewing with its timestamp unchanged.
C8_IdOrder ==
    [][\A i, j \in DOMAIN Proposals :
          (/\ FinalizeStep
           /\ VotingProposal = {}
           /\ ReadyForVoting(i)
           /\ ReadyForVoting(j)
           /\ i # j
           /\ \A k \in DOMAIN Proposals : ReadyForVoting(k) => i <= k)
          => /\ Proposals'[i].state = "Voting"
             /\ Proposals'[j].state = "Reviewing"
             /\ Proposals'[j].timestamp = Proposals[j].timestamp]_vars

\* the position of a proposal's key in the iteration of the storage map
KeyOf(i) == <<180, 81, 158, 191, 217, 57, 182, 14>>[i + 1]

\* C8 amended: of the proposals ready for Voting when the scheduler runs with
\* no vote active, the one whose twox_64_concat key comes first (id 1 before
\* id 0) moves to Voting and every other one stays in Reviewing with its
\* timestamp unchanged; while a proposal stays in Voting, a List/Delist
\* proposal in Reviewing keeps its state and timestamp.
C8_KeyOrder ==
    [][/\ \A i, j \in DOMAIN Proposals :
             (/\ FinalizeStep
              /\ VotingProposal = {}
              /\ ReadyForVoting(i)
              /\ ReadyForVoting(j)
              /\ i # j
              /\ \A k \in DOMAIN Proposals :
                    ReadyForVoting(k) => KeyOf(i) <= KeyOf(k))
             => /\ Proposals'[i].state = "Voting"
                /\ Proposals'[j].state = "Reviewing"
                /\ Proposals'[j].timestamp = Proposals[j].timestamp
       /\ \A i, j \in DOMAIN Proposals :
             (/\ Proposals[i].state = "Voting"
              /\ i \in DOMAIN Proposals'
              /\ Proposals'[i].state = "Voting"
              /\ Proposals[j].state = "Reviewing"
              /\ Proposals[j].proposal_type \in {"List", "Delist"})
             => /\ Proposals'[j].state = "Reviewing"
                /\ Proposals'[j].timestamp = Proposals[j].timestamp]_vars

\* C8 witness: proposal 1 went to Voting in the block in which proposal 0
\* was ready as well, and proposal 0 still waits.
C8_Witness ==
    /\ {0, 1} \subseteq DOMAIN Proposals
    /\ finalized
    /\ Proposals[1].state = "Voting"
    /\ Proposals[1].timestamp = now
    /\ ReadyForVoting(0)

\* C9: running the scheduler twice at the same clock value gives the store
\* that running it once gives.
C9_FinalizeIdempotent ==
    Finalize(Finalize(Store, now), now) = Finalize(Store, now)

\* C10: at the review timeout a Rise/Fall proposal becomes Approved iff
\* s >= 2o and s + o > 0 and RejectedClosed otherwise; a List proposal that
\* is evaluated becomes Voting iff s >= 2o and s + o > 0, a Delist proposal
\* iff s > o, and RejectedClosed otherwise; a List/Delist proposal is left in
\* Reviewing only while another proposal holds the public vote.  Before the
\* timeout (now - timestamp <= REVIEW) the scheduler leaves it as it is.
C10_ReviewQuorum ==
    [][\A i \in DOMAIN Proposals :
        /\ (/\ FinalizeStep
            /\ Proposals[i].state = "Reviewing"
            /\ ~ReviewTimedOut(i)) => Proposals'[i] = Proposals[i]
        /\ (FinalizeStep /\ ReviewTimedOut(i)) =>
             LET kind == Proposals[i].proposal_type
                 s == Proposals[i].review_goals[1]
                 o == Proposals[i].review_goals[2]
                 after == Proposals'[i].state
                 twoThirds == s >= 2 * o /\ s + o > 0
             IN  /\ kind \in {"Rise", "Fall"} =>
                       after = IF twoThirds THEN "Approved"
                               ELSE "RejectedClosed"
                 /\ kind = "List" /\ after # "Reviewing" =>
                       after = IF twoThirds THEN "Voting"
                               ELSE "RejectedClosed"
                 /\ kind = "Delist" /\ after # "Reviewing" =>
                       after = IF s > o THEN "Voting" ELSE "RejectedClosed"
                 /\ after = "Reviewing" =>
                       /\ kind \in {"List", "Delist"}
                       /\ \E k \in DOMAIN Proposals :
                             /\ k # i
                             /\ \/ Proposals[k].state = "Voting"
                                \/ Proposals'[k].state = "Voting"]_vars

\* C10 witness: a List proposal with tally 2-1 passed its review, with
\* s = 2o.
C10_Witness ==
    \E i \in DOMAIN Proposals :
        /\ Proposals[i].proposal_type = "List"
        /\ Proposals[i].review_goals = <<2, 1>>
        /\ Proposals[i].state = "Voting"

StoreVars ==
    <<Proposals, VotingProposal, Tokens, Reviewers, Voters, Staking,
      IdGenerator, free, reserved, total_issuance>>

\* a step that applies an extrinsic: both states lie inside one block
ExtrinsicStep == ~finalized /\ ~finalized'

C12_InvalidVoteAge ==
    /\ [](\A user \in Signers, id \in DOMAIN Proposals, amount \in Amounts,
             age_idx \in CallAgeIdxs \ (0 .. 5) :
              (Proposals[id].state = "Voting" /\ user \notin Range(Voters[id]))
                  => vote_proposal_result(user, id, amount, age_idx)
                         = "InvalidVoteAge")
    /\ [][(ExtrinsicStep /\ result'.res = "InvalidVoteAge") =>
              UNCHANGED <<reserved, Voters, Proposals, Staking>>]_vars

\* the proposals that the step takes from Approved or Rejected to a closed
\* state
ClosedByStep ==
    {i \in DOMAIN Proposals :
        /\ Proposals[i].state \in {"Approved", "Rejected"}
        /\ i \in DOMAIN Proposals'
        /\ Proposals'[i].state \in {"ApprovedClosed", "RejectedClosed"}}

\* C13: a proposal reaches ApprovedClosed or RejectedClosed only in a step
\* that credits its rewards_remainder to the treasury; when the credit fails
\* the proposal stays in Approved or Rejected with its timestamp unchanged.
C13_CloseNeedsCredit ==
    [][LET remainder == [i \in DOMAIN Proposals |->
                            Proposals[i].rewards_remainder]
       IN  ClosedByStep # {} =>
               /\ free'[Treasury]
                      = free[Treasury] + SumOver(remainder, ClosedByStep)
               /\ total_issuance'
                      = total_issuance + SumOver(remainder, ClosedByStep)]_vars

\* the lock period of a StakingInfo has run out
LockOver(stake_info) ==
    now - stake_info.timestamp >= AGE_DAY[stake_info.age_idx + 1][2]

\* C14: unstake(id) by an account that holds a StakingInfo for id succeeds
\* exactly when now - timestamp >= the lock period of its age_idx; it then
\* unreserves staking_amount and removes that StakingInfo.  Before that it
\* returns StillInStaking, without a StakingInfo for id it returns
\* NoneStaking, and neither changes anything.
C14_UnstakeAtLockPeriod ==
    /\ [](\A user \in Signers, id \in CallIds :
             IF get_staking_info(user, id) = {}
             THEN /\ unstake_result(user, id) = "NoneStaking"
                  /\ ~ENABLED unstake_call(user, id)
             ELSE LET stake_info ==
                          CHOOSE i \in get_staking_info(user, id) : TRUE
                  IN  IF LockOver(stake_info)
                      THEN /\ unstake_result(user, id) = "Ok"
                           /\ ENABLED unstake_call(user, id)
                      ELSE /\ unstake_result(user, id) = "StillInStaking"
                           /\ ~ENABLED unstake_call(user, id))
    /\ [][(ExtrinsicStep /\ result'.res \in {"StillInStaking", "NoneStaking"})
              => UNCHANGED StoreVars]_vars
    /\ [][\A user \in Signers :
              Len(Staking'[user]) < Len(Staking[user]) =>
                  \E k \in 1 .. Len(Staking[user]) :
                      LET stake_info == Staking[user][k]
                      IN  /\ LockOver(stake_info)
                          /\ Staking'[user]
                                 = RemoveItem(Staking[user], stake_info)
                          /\ reserved'[user]
                                 = reserved[user] - stake_info.staking_amount
                          /\ free'[user]
                                 = free[user] + stake_info.staking_amount
                          /\ result' = Ok(FALSE)]_vars

\* C15: a successful create_*_proposal stores its proposal under the id
\* IdGenerator held, which is the number of creations before it, and raises
\* IdGenerator by one; IdGenerator changes in no other way, so no id is
\* assigned twice, also after a deletion; every stored id is below
\* IdGenerator.
C15_UniqueIds ==
    /\ [](\A i \in DOMAIN Proposals : Proposals[i].id = i /\ i < IdGenerator)
    /\ [][/\ \A i \in DOMAIN Proposals' \ DOMAIN Proposals :
                /\ i = IdGenerator
                /\ IdGenerator' = IdGenerator + 1
          /\ IdGenerator' # IdGenerator =>
                /\ IdGenerator' = IdGenerator + 1
                /\ DOMAIN Proposals' = DOMAIN Proposals \cup {IdGenerator}
                /\ IdGenerator \notin DOMAIN Proposals
                /\ result' = Ok(TRUE)]_vars

\* C15 witness: proposal 0 was created and deleted, and the next creation
\* got id 1.
C15_Witness == IdGenerator = 2 /\ DOMAIN Proposals = {1}

NoDuplicates(list) ==
    \A i, j \in 1 .. Len(list) : list[i] = list[j] => i = j

GrowsByAppending(old, new) ==
    new = old \/ \E a \in Accounts : a \notin Range(old) /\ new = Append(old, a)

\* C16 as stated: no reviewer list and no voter list holds an account twice,
\* both only grow by appending, and every review_proposal by an account in
\* Reviewers(id) returns AlreadyReview, every vote_proposal by an account in
\* Voters(id) returns AlreadyVote.
C16_AlreadyFails ==
    /\ [](\A id \in DOMAIN Reviewers :
             NoDuplicates(Reviewers[id]) /\ NoDuplicates(Voters[id]))
    /\ [][\A id \in DOMAIN Reviewers :
              /\ GrowsByAppending(Reviewers[id], Reviewers'[id])
              /\ GrowsByAppending(Voters[id], Voters'[id])]_vars
    /\ [](\A id \in DOMAIN Reviewers :
             /\ \A member \in Range(Reviewers[id]) :
                    review_proposal_result(member, id) = "AlreadyReview"
             /\ \A user \in Range(Voters[id]), amount \in Amounts,
                   age_idx \in CallAgeIdxs :
                    vote_proposal_result(user, id, amount, age_idx)
                        = "AlreadyVote")

\* C16 amended: no reviewer list and no voter list holds an account twice and
\* both only grow by appending; a review_proposal by a council member in
\* Reviewers(id) returns AlreadyReview while the proposal is in Reviewing, a
\* vote_proposal by an account in Voters(id) returns AlreadyVote while it is
\* in Voting, and in any other state these calls fail as well.
C16_NoDuplicates ==
    /\ [](\A id \in DOMAIN Reviewers :
             NoDuplicates(Reviewers[id]) /\ NoDuplicates(Voters[id]))
    /\ [][\A id \in DOMAIN Reviewers :
              /\ GrowsByAppending(Reviewers[id], Reviewers'[id])
              /\ GrowsByAppending(Voters[id], Voters'[id])]_vars
    /\ [](\A id \in DOMAIN Reviewers :
             /\ \A member \in Range(Reviewers[id]) :
                    /\ review_proposal_result(member, id) # "Ok"
                    /\ (/\ member \in CouncilMembers
                        /\ id \in DOMAIN Proposals
                        /\ Proposals[id].state = "Reviewing") =>
                           review_proposal_result(member, id) = "AlreadyReview"
             /\ \A user \in Range(Voters[id]), amount \in Amounts,
                   age_idx \in CallAgeIdxs :
                    /\ vote_proposal_result(user, id, amount, age_idx) # "Ok"
                    /\ (id \in DOMAIN Proposals
                           /\ Proposals[id].state = "Voting") =>
                           vote_proposal_result(user, id, amount, age_idx)
                               = "AlreadyVote")

\* C16 witness: both voters have voted and a further vote of one of them
\* has just been refused.
C16_Witness ==
    /\ result = Err("AlreadyVote")
    /\ \E id \in DOMAIN Voters : Len(Voters[id]) = 2

\* C17: a successful create_*_proposal adds a Pending proposal under the id
\* IdGenerator held and changes nothing else but IdGenerator, and its
\* proposer can delete it in the state reached; a successful delete removes
\* that entry and changes nothing else: create followed by delete gives
\* back Proposals, Tokens, Reviewers, Voters, Staking, VotingProposal and
\* the balances, with IdGenerator still raised.
C17_CreateDeleteRestores ==
    /\ [][IdGenerator' # IdGenerator =>
              \A id \in {IdGenerator} :
                  /\ id \in DOMAIN Proposals'
                  /\ Proposals'[id].state = "Pending"
                  /\ \A proposer \in {Proposals'[id].proposer} :
                         (remove_proposal_result(id, proposer) = "Ok")'
                  /\ Remove(Proposals', id) = Proposals
                  /\ UNCHANGED <<VotingProposal, Tokens, Reviewers, Voters,
                                 Staking, free, reserved, total_issuance>>]_vars
    /\ [][\A id \in DOMAIN Proposals \ DOMAIN Proposals' :
              /\ Proposals[id].state = "Pending"
              /\ Proposals' = Remove(Proposals, id)
              /\ UNCHANGED <<VotingProposal, Tokens, Reviewers, Voters,
                             Staking, free, reserved, total_issuance,
                             IdGenerator>>]_vars

\* C17 witness: the only proposal ever created has just been deleted.
C17_Witness ==
    /\ IdGenerator = 1
    /\ DOMAIN Proposals = {}
    /\ result = Ok(TRUE)
    /\ ~finalized

\* what C18 expects of a call that modifies proposal id for caller
ModifyResult(id, caller) ==
    CASE id \notin DOMAIN Proposals -> "ProposalNotFound"
      [] Proposals[id].proposer # caller -> "NotYourProposal"
      [] Proposals[id].state # "Pending" -> "ProposalCannotBeModified"
      [] OTHER -> "Ok"

\* the step removes proposal id or rewrites more of it than its tallies and
\* its rewards_remainder
ModifiedByStep(id) ==
    \/ id \notin DOMAIN Proposals'
    \/ [Proposals'[id] EXCEPT !.review_goals = <<0, 0>>,
                              !.vote_goals = <<0, 0>>, !.rewards_remainder = 0]
           # [Proposals[id] EXCEPT !.review_goals = <<0, 0>>,
                                  !.vote_goals = <<0, 0>>,
                                  !.rewards_remainder = 0]

\* a call refused for one of the three reasons changes nothing, and a call
\* that removes or rewrites a proposal finds it Pending and leaves its
\* proposer
ModifyOnlyPending ==
    /\ [][(ExtrinsicStep /\ result'.res \in {"ProposalNotFound",
                                              "NotYourProposal",
                                              "ProposalCannotBeModified"})
              => UNCHANGED StoreVars]_vars
    /\ [][ExtrinsicStep =>
              \A id \in DOMAIN Proposals :
                  ModifiedByStep(id) =>
                      /\ Proposals[id].state = "Pending"
                      /\ result' = Ok(TRUE)
                      /\ id \in DOMAIN Proposals' =>
                             /\ Proposals'[id].proposer = Proposals[id].proposer
                             /\ Proposals'[id].state = "Pending"]_vars

\* C18 as stated: update_list_proposal and the delete_*_proposal calls
\* return ProposalNotFound when the proposal does not exist, NotYourProposal
\* when its proposer is not the caller, ProposalCannotBeModified when it is
\* not Pending, and Ok otherwise; no call removes or rewrites a proposal
\* that is in Reviewing or a later state.
C18_ModifyErrors ==
    /\ [](\A caller \in Signers, id \in CallIds :
             /\ remove_proposal_result(id, caller) = ModifyResult(id, caller)
             /\ \A token_name \in TokenNames :
                    update_list_proposal_result(caller, id, token_name)
                        = ModifyResult(id, caller))
    /\ ModifyOnlyPending

\* C18 amended: the delete_*_proposal calls return ProposalNotFound,
\* NotYourProposal, ProposalCannotBeModified or Ok as stated and are accepted
\* exactly when the result is Ok; update_list_proposal does the same for a
\* token name that is not listed and returns TokenExists for a listed one,
\* whatever the proposal; no call removes or rewrites a proposal that is in
\* Reviewing or a later state.
C18_ModifyOnlyPendingOwn ==
    /\ [](\A caller \in Signers, id \in CallIds :
             /\ remove_proposal_result(id, caller) = ModifyResult(id, caller)
             /\ (ModifyResult(id, caller) = "Ok")
                    <=> ENABLED remove_proposal(id, caller)
             /\ \A token_name \in TokenNames :
                    update_list_proposal_result(caller, id, token_name)
                        = IF token_name \in DOMAIN Tokens THEN "TokenExists"
                          ELSE ModifyResult(id, caller))
    /\ ModifyOnlyPending

\* C18 witness: a call to modify a proposal that is past Pending has just
\* been refused.
C18_Witness ==
    /\ result = Err("ProposalCannotBeModified")
    /\ \E id \in DOMAIN Proposals : Proposals[id].state = "Voting"

Balance(fr, rs, account) == fr[account] + rs[account]

\* C19: burn(amount) by a caller whose balance is below amount returns
\* InsufficientFunds and changes neither the balance nor total_issuance; a
\* burn that succeeds takes amount from the caller's balance and from
\* total_issuance.
C19_BurnInsufficientFunds ==
    [][burns' # burns =>
          \/ /\ result' = Err("InsufficientFunds")
             /\ UNCHANGED <<free, reserved, total_issuance>>
          \/ /\ result'.res = "Ok"
             /\ \E user \in Signers, burn_amount \in BurnAmounts :
                   /\ Balance(free, reserved, user) >= burn_amount
                   /\ Balance(free', reserved', user)
                          = Balance(free, reserved, user) - burn_amount
                   /\ total_issuance' = total_issuance - burn_amount]_vars

\* C20: a Rise or Fall proposal has rewards_remainder = 0; a List or Delist
\* proposal is created with rewards_remainder = TOTAL_REWARDS, no step
\* increases the rewards_remainder of a proposal, and it stays within
\* 0 .. TOTAL_REWARDS.  (A negative value stands for a wrapped u128, far
\* above TOTAL_REWARDS.)
C20_RemainderBounds ==
    /\ [](\A i \in DOMAIN Proposals :
             IF Proposals[i].proposal_type \in {"Rise", "Fall"}
             THEN Proposals[i].rewards_remainder = 0
             ELSE Proposals[i].rewards_remainder \in 0 .. TOTAL_REWARDS)
    /\ [][/\ \A i \in DOMAIN Proposals' \ DOMAIN Proposals :
                Proposals'[i].proposal_type \in {"List", "Delist"} =>
                    Proposals'[i].rewards_remainder = TOTAL_REWARDS
          /\ \A i \in DOMAIN Proposals' \cap DOMAIN Proposals :
                /\ Proposals'[i].rewards_remainder >= 0
                /\ Proposals'[i].rewards_remainder
                       <= Proposals[i].rewards_remainder]_vars
\* a proposal of the given kinds that this step takes from one state to another
Moves(i, kinds, from, to) ==
    /\ i \in DOMAIN Proposals
    /\ i \in DOMAIN Proposals'
    /\ Proposals[i].proposal_type \in kinds
    /\ Proposals[i].state = from
    /\ Proposals'[i].state = to

\* C21: a token name enters the registry only in a step in which a List
\* proposal for it goes from Voting to Approved and leaves it only in a step
\* in which a Delist proposal for it goes from Voting to Approved; a Rise or
\* Fall proposal is approved only for a token that is in the registry, and
\* the step changes nothing of that token but current_market.
C21_TokenLifecycle ==
    [][/\ \A n \in (DOMAIN Tokens') \ (DOMAIN Tokens) :
             \E i \in DOMAIN Proposals :
                 /\ Moves(i, {"List"}, "Voting", "Approved")
                 /\ Proposals[i].token_name = n
       /\ \A n \in (DOMAIN Tokens) \ (DOMAIN Tokens') :
             \E i \in DOMAIN Proposals :
                 /\ Moves(i, {"Delist"}, "Voting", "Approved")
                 /\ Proposals[i].token_name = n
       /\ \A i \in DOMAIN Proposals :
             Moves(i, {"Rise", "Fall"}, "Reviewing", "Approved")
                 => Proposals[i].token_name \in DOMAIN Tokens]_vars

\* C24: the kind of a stored proposal never changes.
C24_KindNeverChanges ==
    [][\A i \in (DOMAIN Proposals) \cap (DOMAIN Proposals') :
          Proposals'[i].proposal_type = Proposals[i].proposal_type]_vars

VoteTimedOut(i) ==
    /\ Proposals[i].state = "Voting"
    /\ now - Proposals[i].timestamp > VOTE_DURATION

ReviewFailed(i) ==
    /\ ReviewTimedOut(i)
    /\ Proposals[i].proposal_type \in {"List", "Delist"}
    /\ ~ReadyForVoting(i)

\* the store on_finalize has produced when it comes to proposal i
StoreAtVisit(i) ==
    LET order == IterOrder(DOMAIN Proposals)
        k == CHOOSE j \in 1 .. Len(order) : order[j] = i
    IN  DealAll(Store, SubSeq(order, 1, k - 1), now)

\* C23 as stated: every scheduler run that visits a List or Delist proposal
\* in Reviewing past REVIEW_DURATION whose review quorum fails leaves it in
\* RejectedClosed.
C23_FailedReviewRejected ==
    [][FinalizeStep =>
         \A i \in DOMAIN Proposals :
            ReviewFailed(i) => Proposals'[i].state = "RejectedClosed"]_vars

\* C23 amended: such a run leaves the proposal in RejectedClosed, stamped
\* now, when VotingProposal is absent at the moment the proposal is visited,
\* and leaves the proposal as it is when VotingProposal is present.
C23_FailedReviewRejectedOrDeferred ==
    [][FinalizeStep =>
         \A i \in DOMAIN Proposals :
            ReviewFailed(i)
            => IF StoreAtVisit(i).V = {}
               THEN /\ Proposals'[i].state = "RejectedClosed"
                    /\ Proposals'[i].timestamp = now
               ELSE Proposals'[i] = Proposals[i]]_vars

\* C23 witness: the scheduler has run in this block and has left a List or
\* Delist proposal without quorum, past its review timeout, in Reviewing.
C23_Witness ==
    /\ finalized
    /\ \E i \in DOMAIN Proposals : ReviewFailed(i)

\* C25: a proposal is stored with the clock value of its creation, every
\* step that changes its state sets its timestamp to the clock value of the
\* step, and no other step changes its timestamp; so the timestamp of a
\* Pending proposal is its creation time.
C25_TimestampIsStateEntry ==
    [][/\ \A i \in (DOMAIN Proposals') \ (DOMAIN Proposals) :
             Proposals'[i].timestamp = now'
       /\ \A i \in (DOMAIN Proposals) \cap (DOMAIN Proposals') :
             Proposals'[i].timestamp =
                 IF Proposals'[i].state # Proposals[i].state
                 THEN now' ELSE Proposals[i].timestamp]_vars

\* C26: while a proposal is in Voting, every account of its voter list holds
\* its StakingInfo for the proposal and has at least the staked amount
\* reserved.
C26_BallotsEscrowedWhileVoting ==
    \A i \in DOMAIN Proposals :
        Proposals[i].state = "Voting"
        => \A user \in Range(Voters[i]) :
              /\ get_staking_info(user, i) # {}
              /\ \A stake_info \in get_staking_info(user, i) :
                    reserved[user] >= stake_info.staking_amount

\* C27: receive_rewards by a voter of an Approved or Rejected proposal who
\* holds a StakingInfo for it does not run into an arithmetic fault, neither
\* the division by the tally nor the subtraction from rewards_remainder.
C27_NoArithmeticFault ==
    \A user \in Signers, id \in DOMAIN Proposals :
        /\ user \in Range(Voters[id])
        /\ Proposals[id].state \in {"Approved", "Rejected"}
        /\ get_staking_info(user, id) # {}
        => /\ receive_rewards_result(user, id) # "Panic"
           /\ ~receive_rewards_overflows(user, id)

\* C28: every stored proposal is eventually deleted or reaches
\* ApprovedClosed or RejectedClosed.
C28_EveryProposalCloses ==
    \A i \in ProposalIds :
        (i \in DOMAIN Proposals)
            ~> (\/ i \notin DOMAIN Proposals
                \/ Proposals[i].state \in {"ApprovedClosed", "RejectedClosed"})

====
